---- MODULE Spec2Model ----
(***************************************************************************)
(* A model of the domain-classification pipeline: identify_domain and its  *)
(* nested parser (llm_client.py), chunk_text and the truncation rule       *)
(* (extractors.py, llm_client.py) and the domain table (storage.py).       *)
(*                                                                         *)
(* Text is a sequence of lexemes.  A lexeme is either one character of the *)
(* source's alphabet (a brace, a quote, a separator, a blank) or a word    *)
(* that the code only ever handles as a whole (a reasoning marker, a JSON  *)
(* key, a label word).  Width gives a lexeme's length in characters, so    *)
(* len() is the sum of the widths.  Non-ASCII text of the source is        *)
(* written in pinyin: "weifenlei" is the Uncategorized sentinel,           *)
(* "lingyu", "xueke", "leibie" are the category prefixes, "cn_comma",      *)
(* "cn_period", "cn_dun", "cn_colon" the full-width punctuation.           *)
(***************************************************************************)
EXTENDS Integers, Sequences, FiniteSets, TLC

VARIABLES
    provider,   \* identify_domain's provider argument
    prompt,     \* the assembled user prompt (llm_client.py:199)
    sys_msg,    \* the system prompt in force (llm_client.py:193)
    pc,         \* position in identify_domain's body
    raw,        \* first gateway response (llm_client.py:307)
    raw2,       \* second gateway response (llm_client.py:311)
    result,     \* what the call produced: a pair, or a raised error
    sent,       \* the gateway requests made so far, in order
    text,       \* chunk_text: the stripped text
    chunk_size, \* chunk_text: chunk_size argument
    overlap,    \* chunk_text: overlap argument
    start,      \* chunk_text: the loop variable start
    chunks,     \* chunk_text: the chunks appended so far, with their offsets
    windows,    \* chunk_text: every window carved so far, as [from, to]
    cpc,        \* position in chunk_text
    iters,      \* chunk_text: loop iterations run
    cap,        \* prompt assembly: max_prompt_chars
    sys_len,    \* prompt assembly: len(sys_msg)
    prefix_len, \* prompt assembly: len(prompt_prefix)
    content,    \* prompt assembly: content_s
    ppc,        \* position in the prompt assembly
    ts,         \* truncation: the string s given
    tn,         \* truncation: the cap max_chars given
    once,       \* truncation: each function's result on ts
    twice,      \* truncation: each function's result on its own result
    tpc,        \* position in the truncation run
    conn,       \* storage: whether ensure_db has returned a connection
    table,      \* storage: literature_domains: whether created, and its rows
    next_id,    \* storage: the id AUTOINCREMENT gives the next new row
    call,       \* storage: the arguments of the latest upsert_domain call
    ncalls      \* storage: upsert_domain calls made

vars == <<provider, prompt, sys_msg, pc, raw, raw2, result, sent,
          text, chunk_size, overlap, start, chunks, windows, cpc, iters,
          cap, sys_len, prefix_len, content, ppc,
          ts, tn, once, twice, tpc,
          conn, table, next_id, call, ncalls>>

classifyVars == <<provider, prompt, sys_msg, pc, raw, raw2, result, sent>>
chunkVars == <<text, chunk_size, overlap, start, chunks, windows, cpc, iters>>
promptVars == <<cap, sys_len, prefix_len, content, ppc>>
truncVars == <<ts, tn, once, twice, tpc>>
storeVars == <<conn, table, next_id, call, ncalls>>

(***************************************************************************)
(* Strings                                                                 *)
(***************************************************************************)

Q == "\""
THINK_OPEN == "<think>"
THINK_CLOSE == "</think>"
WEIFENLEI == <<"weifenlei">>
UNCATEGORIZED == <<"Uncategorized">>

\* Characters str.strip() removes.
WS == {" ", "\n", "\t"}

Width(t) ==
    CASE t = "w25" -> 25
      [] t \in {"<think>", "<THINK>"} -> 7
      [] t = "</think>" -> 8
      [] t = "field" -> 5
      [] t \in {"domain_cn", "domain_en"} -> 9
      [] t = "null" -> 4
      [] t = "weifenlei" -> 3
      [] t \in {"lingyu", "xueke", "leibie"} -> 2
      [] t = "API" -> 3
      [] t = "qingqiushibai" -> 4
      [] t = "Uncategorized" -> 13
      [] OTHER -> 1

RECURSIVE len(_)
len(s) == IF s = <<>> THEN 0 ELSE Width(Head(s)) + len(Tail(s))

RECURSIVE LStrip(_, _)
LStrip(s, cs) ==
    IF s # <<>> /\ Head(s) \in cs THEN LStrip(Tail(s), cs) ELSE s

RECURSIVE RStrip(_, _)
RStrip(s, cs) ==
    IF s # <<>> /\ s[Len(s)] \in cs
    THEN RStrip(SubSeq(s, 1, Len(s) - 1), cs)
    ELSE s

\* str.strip(chars)
StripChars(s, cs) == RStrip(LStrip(s, cs), cs)

\* str.strip()
strip(s) == StripChars(s, WS)

Min(S) == CHOOSE x \in S : \A y \in S : x <= y
Max(S) == CHOOSE x \in S : \A y \in S : x >= y

\* Index of the first t at or after position i, 0 when there is none.
IndexFrom(s, t, i) ==
    LET I == {j \in i..Len(s) : s[j] = t}
    IN  IF I = {} THEN 0 ELSE Min(I)

\* t in s
Contains(s, t) == \E j \in 1..Len(s) : s[j] = t

\* s.split(t)[0]
BeforeFirst(s, t) ==
    LET j == IndexFrom(s, t, 1)
    IN  IF j = 0 THEN s ELSE SubSeq(s, 1, j - 1)

\* s.split(t, 1)[-1]
AfterFirst(s, t) ==
    LET j == IndexFrom(s, t, 1)
    IN  IF j = 0 THEN s ELSE SubSeq(s, j + 1, Len(s))

\* s.split(t)[-1]
AfterLast(s, t) ==
    LET I == {j \in 1..Len(s) : s[j] = t}
    IN  IF I = {} THEN s ELSE SubSeq(s, Max(I) + 1, Len(s))

\* s.split(t)[1], for s that holds t
SecondPart(s, t) == BeforeFirst(AfterFirst(s, t), t)

HasThink(s) == Contains(s, THINK_OPEN) \/ Contains(s, THINK_CLOSE)

\* First position at or after i that holds no whitespace (Len(s)+1 at the end).
SkipWS(s, i) ==
    LET I == {j \in i..Len(s) : s[j] \notin WS}
    IN  IF I = {} THEN Len(s) + 1 ELSE Min(I)

At(s, i) == IF i \in 1..Len(s) THEN s[i] ELSE "EOF"

\* The quoted key "k" stands at position i.
KeyAt(s, i, k) == At(s, i) = Q /\ At(s, i + 1) = k /\ At(s, i + 2) = Q

(***************************************************************************)
(* _normalize_domain                                                       *)
(***************************************************************************)

SEPARATORS == <<"\n", "cn_comma", "cn_period", ",", ".">>
PREFIXES == {"lingyu", "xueke", "leibie"}

RECURSIVE SplitSeps(_, _)
SplitSeps(s, k) ==
    IF k > Len(SEPARATORS) THEN s
    ELSE IF Contains(s, SEPARATORS[k])
         THEN SplitSeps(strip(BeforeFirst(s, SEPARATORS[k])), k + 1)
         ELSE SplitSeps(s, k + 1)

\* re.sub(r"^(lingyu|xueke|leibie|...)\s*", "", s): the alternatives with a
\* trailing colon never match, the shorter ones come first.
DropPrefix(s) ==
    IF s # <<>> /\ Head(s) \in PREFIXES THEN LStrip(Tail(s), WS) ELSE s

_normalize_domain(s0) ==
    IF s0 = <<>> THEN WEIFENLEI
    ELSE LET s == StripChars(DropPrefix(SplitSeps(strip(s0), 1)),
                             {Q, "'", " ", "\t"})
         IN  IF s # <<>> THEN s ELSE WEIFENLEI

(***************************************************************************)
(* json.loads, for the lexemes of this model: strings, the number 5, null, *)
(* lists and objects.  A value is [t, s, truthy]: its type, its text when  *)
(* it is a string, and its truth value in Python.                          *)
(***************************************************************************)

Str(s) == [t |-> "str", s |-> s, truthy |-> s # <<>>]
JNum == [t |-> "num", s |-> <<>>, truthy |-> TRUE]
JNull == [t |-> "null", s |-> <<>>, truthy |-> FALSE]
JList(n) == [t |-> "list", s |-> <<>>, truthy |-> n > 0]
JObj(n) == [t |-> "obj", s |-> <<>>, truthy |-> n > 0]

JFail == [ok |-> FALSE, v |-> JNull, m |-> <<>>, next |-> 0]
JOk(v, m, next) == [ok |-> TRUE, v |-> v, m |-> m, next |-> next]

\* End of the run of digits that starts at i.
RECURSIVE DigitsEnd(_, _)
DigitsEnd(s, i) == IF At(s, i + 1) = "5" THEN DigitsEnd(s, i + 1) ELSE i

RECURSIVE ParseValue(_, _)
RECURSIVE ParseMembers(_, _, _)
RECURSIVE ParseItems(_, _, _)

\* A JSON string that opens at i: up to the next quote, no control character.
ParseString(s, i) ==
    LET j == IndexFrom(s, Q, i + 1)
    IN  IF At(s, i) # Q \/ j = 0 THEN JFail
        ELSE LET body == SubSeq(s, i + 1, j - 1)
             IN  IF Contains(body, "\n") \/ Contains(body, "\t") THEN JFail
                 ELSE JOk(Str(body), <<>>, j + 1)

\* The members of an object, from the key at i; m holds those read so far.
ParseMembers(s, i, m) ==
    LET k == ParseString(s, i)
    IN  IF ~k.ok THEN JFail
        ELSE LET c == SkipWS(s, k.next)
             IN  IF At(s, c) # ":" THEN JFail
                 ELSE LET v == ParseValue(s, SkipWS(s, c + 1))
                      IN  IF ~v.ok THEN JFail
                          ELSE LET e == SkipWS(s, v.next)
                                   m2 == Append(m, <<k.v.s, v.v>>)
                               IN  IF At(s, e) = "}"
                                   THEN JOk(JObj(Len(m2)), m2, e + 1)
                                   ELSE IF At(s, e) = ","
                                   THEN ParseMembers(s, SkipWS(s, e + 1), m2)
                                   ELSE JFail

\* The items of a list, from the item at i; n counts those read so far.
ParseItems(s, i, n) ==
    LET v == ParseValue(s, i)
    IN  IF ~v.ok THEN JFail
        ELSE LET e == SkipWS(s, v.next)
             IN  IF At(s, e) = "]" THEN JOk(JList(n + 1), <<>>, e + 1)
                 ELSE IF At(s, e) = ","
                 THEN ParseItems(s, SkipWS(s, e + 1), n + 1)
                 ELSE JFail

ParseValue(s, i) ==
    CASE At(s, i) = Q -> ParseString(s, i)
      [] At(s, i) = "5" -> JOk(JNum, <<>>, DigitsEnd(s, i) + 1)
      [] At(s, i) = "null" -> JOk(JNull, <<>>, i + 1)
      [] At(s, i) = "{" ->
            IF At(s, SkipWS(s, i + 1)) = "}"
            THEN JOk(JObj(0), <<>>, SkipWS(s, i + 1) + 1)
            ELSE ParseMembers(s, SkipWS(s, i + 1), <<>>)
      [] At(s, i) = "[" ->
            IF At(s, SkipWS(s, i + 1)) = "]"
            THEN JOk(JList(0), <<>>, SkipWS(s, i + 1) + 1)
            ELSE ParseItems(s, SkipWS(s, i + 1), 0)
      [] OTHER -> JFail

\* json.loads(s): one value, nothing but whitespace around it.  ok is FALSE
\* where json.loads raises JSONDecodeError.
json_loads(s) ==
    LET v == ParseValue(s, SkipWS(s, 1))
    IN  IF v.ok /\ SkipWS(s, v.next) = Len(s) + 1 THEN v ELSE JFail

\* key in data
HasKey(data, k) == \E i \in 1..Len(data.m) : data.m[i][1] = <<k>>

\* data[key]: the last member of that name
Lookup(data, k) ==
    data.m[Max({i \in 1..Len(data.m) : data.m[i][1] = <<k>>})][2]

\* data.get(key, "")
Get(data, k) == IF HasKey(data, k) THEN Lookup(data, k) ELSE Str(<<>>)

\* data.get(key), which is None when the key is missing
GetOrNone(data, k) == IF HasKey(data, k) THEN Lookup(data, k) ELSE JNull

(***************************************************************************)
(* The parser nested in identify_domain.  A parse yields a pair, None, or  *)
(* raises: "raise" is the AttributeError of calling .strip() on a value    *)
(* that is not a string, which no except clause of the code catches.       *)
(***************************************************************************)

None == [kind |-> "none", cn |-> <<>>, en |-> <<>>]
Raised == [kind |-> "raise", cn |-> <<>>, en |-> <<>>]
Pair(cn, en) == [kind |-> "pair", cn |-> cn, en |-> en]

MAX_LABEL_CHARS == 50

\* (x or "").strip() raises when x is true and not a string.
StripRaises(x) == x.truthy /\ x.t # "str"

\* (x or "").strip(), for x that does not raise
OrEmptyStrip(x) == IF x.truthy THEN strip(x.s) ELSE <<>>

_normalize_minimal_domain(domain_cn, domain_en) ==
    IF StripRaises(domain_cn) \/ StripRaises(domain_en) THEN Raised
    ELSE LET cn0 == OrEmptyStrip(domain_cn)
             en0 == OrEmptyStrip(domain_en)
             cn == IF cn0 # <<>> THEN _normalize_domain(cn0) ELSE <<>>
             en == IF en0 = <<>> /\ cn # <<>> THEN cn ELSE en0
         IN  IF cn = <<>> \/ cn = WEIFENLEI
             THEN Pair(WEIFENLEI, IF en # <<>> THEN en ELSE UNCATEGORIZED)
             ELSE IF HasThink(cn)
             THEN Pair(WEIFENLEI, UNCATEGORIZED)
             ELSE Pair(cn, IF en # <<>> THEN en ELSE cn)

\* _FIELD_JSON_RE anchored at i: \{\s*"field"\s*:\s*"([^"]+)"\s*\}
\* ok, and the group g.
FieldReAt(s, i) ==
    LET k == SkipWS(s, i + 1)
        c == SkipWS(s, k + 3)
        o == SkipWS(s, c + 1)
        e == IndexFrom(s, Q, o + 1)
    IN  IF /\ At(s, i) = "{"
           /\ KeyAt(s, k, "field")
           /\ At(s, c) = ":"
           /\ At(s, o) = Q
           /\ e > o + 1
           /\ At(s, SkipWS(s, e + 1)) = "}"
        THEN [ok |-> TRUE, g |-> SubSeq(s, o + 1, e - 1)]
        ELSE [ok |-> FALSE, g |-> <<>>]

\* _FIELD_JSON_RE.search(s): the leftmost match.
FieldReSearch(s) ==
    LET I == {i \in 1..Len(s) : FieldReAt(s, i).ok}
    IN  IF I = {} THEN [ok |-> FALSE, g |-> <<>>] ELSE FieldReAt(s, Min(I))

\* _is_think_only without lines 238-246: only a block that is never closed
\* counts as reasoning alone.
IsThinkOnlyUnclosed(raw0) ==
    /\ raw0 # <<>>
    /\ strip(raw0) # <<>>
    /\ Head(strip(raw0)) \in {"<think>", "<THINK>"}
    /\ ~Contains(strip(raw0), THINK_CLOSE)

_is_think_only(raw0) ==
    LET s == strip(raw0)
        after == strip(AfterFirst(s, THINK_CLOSE))
    IN  IF raw0 = <<>> THEN FALSE
        ELSE IF ~(s # <<>> /\ Head(s) \in {"<think>", "<THINK>"}) THEN FALSE
        ELSE IF ~Contains(s, THINK_CLOSE) THEN TRUE
        ELSE IF after = <<>> THEN TRUE
        ELSE IF FieldReSearch(after).ok THEN FALSE
        ELSE IF \E i \in 1..Len(after) : KeyAt(after, i, "field") THEN FALSE
        ELSE TRUE

\* The first of two attempts that yields something.
OrElse(a, b) == IF a.kind # "none" THEN a ELSE b

\* End of a match of \{[^{}]*\} that opens at i, 0 when there is none: the
\* next brace after i must be the closing one.
BraceSpanEnd(s, i) ==
    LET J == {j \in (i + 1)..Len(s) : s[j] \in {"{", "}"}}
    IN  IF At(s, i) = "{" /\ J # {} /\ s[Min(J)] = "}" THEN Min(J) ELSE 0

\* \{[^{}]*"field"[^{}]*\} matches at i.
FieldSpanAt(s, i) ==
    /\ BraceSpanEnd(s, i) # 0
    /\ \E k \in (i + 1)..(BraceSpanEnd(s, i) - 3) : KeyAt(s, k, "field")

\* \{[^{}]*"domain_cn"[^{}]*"domain_en"[^{}]*\} matches at i.
PairSpanAt(s, i) ==
    /\ BraceSpanEnd(s, i) # 0
    /\ \E k \in (i + 1)..(BraceSpanEnd(s, i) - 6) :
         /\ KeyAt(s, k, "domain_cn")
         /\ \E k2 \in (k + 3)..(BraceSpanEnd(s, i) - 3) :
              KeyAt(s, k2, "domain_en")

\* Lines 253-254 and 261-262: a label that is kept goes through
\* _normalize_minimal_domain as both names.
KeepLabel(keep, cn) ==
    IF keep THEN _normalize_minimal_domain(Str(cn), Str(cn)) ELSE None

\* Lines 251-254, for the match m of _FIELD_JSON_RE.
StrictLabel(ok, cn) ==
    KeepLabel(ok /\ cn # <<>> /\ ~HasThink(cn) /\ len(cn) <= MAX_LABEL_CHARS,
              cn)

\* Lines 259-262, for the value f of data["field"] (None when missing).
BracketedLabel(ok, f) ==
    KeepLabel(ok /\ f.t = "str" /\ strip(f.s) # <<>> /\ ~HasThink(strip(f.s)),
              strip(f.s))

\* Lines 258-264, for one match of the bracketed "field" object.
BracketedData(data) == BracketedLabel(data.ok, GetOrNone(data, "field"))

\* The loop over re.finditer of the bracketed "field" objects, from pos on.
RECURSIVE ScanField(_, _)
ScanField(s, pos) ==
    LET i == Min({k \in pos..Len(s) : FieldSpanAt(s, k)} \cup {Len(s) + 1})
    IN  IF i > Len(s) THEN None
        ELSE OrElse(BracketedData(json_loads(SubSeq(s, i, BraceSpanEnd(s, i)))),
                    ScanField(s, BraceSpanEnd(s, i) + 1))

_parse_field_format(s) ==
    OrElse(StrictLabel(FieldReSearch(s).ok,
                       StripChars(strip(FieldReSearch(s).g),
                                  {"cn_period", "cn_comma", ",", "cn_dun"})),
           ScanField(s, 1))

\* Lines 282-286, for one match of the domain_cn/domain_en object.
PairData(data) ==
    IF data.ok /\ HasKey(data, "domain_cn") /\ HasKey(data, "domain_en")
    THEN _normalize_minimal_domain(Get(data, "domain_cn"),
                                   Get(data, "domain_en"))
    ELSE None

\* The loop over re.finditer of the domain_cn/domain_en objects, from pos on.
RECURSIVE ScanPair(_, _)
ScanPair(s, pos) ==
    LET i == Min({k \in pos..Len(s) : PairSpanAt(s, k)} \cup {Len(s) + 1})
    IN  IF i > Len(s) THEN None
        ELSE OrElse(PairData(json_loads(SubSeq(s, i, BraceSpanEnd(s, i)))),
                    ScanPair(s, BraceSpanEnd(s, i) + 1))

\* Lines 292-298, for f = data.get("field"): by "field" when its text is not
\* empty, else by domain_cn and domain_en.
GenericField(data, f) ==
    IF HasKey(data, "field") /\ StripRaises(f) THEN Raised
    ELSE IF HasKey(data, "field") /\ OrEmptyStrip(f) # <<>>
    THEN KeepLabel(TRUE, OrEmptyStrip(f))
    ELSE _normalize_minimal_domain(Get(data, "domain_cn"),
                                   Get(data, "domain_en"))

\* Lines 291-298; a JSONDecodeError is caught at line 299.
GenericData(data) ==
    IF data.ok THEN GenericField(data, GetOrNone(data, "field")) ELSE None

\* re.search(r"\{.*\}", s, re.DOTALL) and what lines 290-298 make of it:
\* from the first opening brace to the last closing one.
GenericObject(s) ==
    LET a == IndexFrom(s, "{", 1)
        b == Max({j \in 1..Len(s) : s[j] = "}"} \cup {0})
    IN  IF a = 0 \/ b < a THEN None
        ELSE GenericData(json_loads(SubSeq(s, a, b)))

\* Lines 301-304: the cn|en fallback.
PipeFallback(s) ==
    IF Contains(s, "|")
    THEN _normalize_minimal_domain(Str(strip(BeforeFirst(s, "|"))),
                                   Str(strip(SecondPart(s, "|"))))
    ELSE None

\* Lines 275-305: the strategies in order, on the text after the reasoning.
Strategies(work) ==
    OrElse(_parse_field_format(work),
           OrElse(ScanPair(work, 1),
                  OrElse(GenericObject(work), PipeFallback(work))))

_parse(raw0) ==
    IF raw0 = <<>> THEN None
    ELSE IF _is_think_only(raw0) THEN None
    ELSE Strategies(IF Contains(raw0, THINK_CLOSE)
                    THEN strip(AfterLast(raw0, THINK_CLOSE))
                    ELSE strip(raw0))

(***************************************************************************)
(* The gateway.  ask_openai_api and ask_ollama return the model's text,    *)
(* stripped, or a bracketed diagnostic; each is the set of strings the     *)
(* call can return.                                                        *)
(***************************************************************************)

\* Longest plain label, in words of 25 characters.
MaxLabelWords == 3

RECURSIVE Rep(_, _)
Rep(w, k) == IF k = 0 THEN <<>> ELSE <<w>> \o Rep(w, k - 1)

Quoted(s) == <<Q>> \o s \o <<Q>>

\* Label texts a model may put forward.
Labels ==
    {Rep("w25", k) : k \in 1..MaxLabelWords}
    \cup { <<"a">>, <<"a", ",", "b">>, <<"a", ":", "b">>,
           <<"a", ",", "<think>">>, <<"<think>", "a">>, <<"xueke">>,
           <<"lingyu", "a">>, WEIFENLEI, <<>> }

\* JSON values a model may give a key.
JsonValues ==
    {Quoted(l) : l \in Labels}
    \cup { <<"5">>, <<"null">>, <<"[", "5", "]">>,
           <<"{", Q, "a", Q, ":", "5", "}">> }

FieldObject(v) == <<"{", Q, "field", Q, ":", " ">> \o v \o <<"}">>

PairObject(x, y) ==
    <<"{", Q, "domain_cn", Q, ":", " ">> \o x
    \o <<",", " ", Q, "domain_en", Q, ":", " ">> \o y \o <<"}">>

Objects ==
    {FieldObject(v) : v \in JsonValues}
    \cup {PairObject(x, y) :
            x \in {Quoted(<<"a">>), Quoted(<<>>), <<"5">>},
            y \in {Quoted(<<"b">>), Quoted(<<>>), <<"null">>}}
    \cup { <<"{", Q, "a", Q, ":", "5", "}">>,
           <<"{", Q, "field", Q, ":", " ", Q, "a", Q>>,
           <<"{", Q, "domain_cn", Q, ":", Q, "a", Q, "}">>,
           <<"{", Q, "field", Q, ":", "5", ",",
             Q, "field", Q, ":", Q, "a", Q, "}">> }

Piped == { <<"a", "|", "b">>, <<"|", "b">>, <<"a", "|">> }

\* Objects of no expected shape: one that parses but has none of the keys,
\* one that does not parse.
Shapeless == { <<"{", Q, "a", Q, ":", "5", "}">>, <<"{", "a", "}">> }

\* cn|en followed by such an object.
PipedShapeless == {<<"a", "|", "b", " ">> \o o : o \in Shapeless}

\* What may follow a reasoning block or a word of prose.
Tails ==
    { <<>>, <<"a">>, <<"a", "|", "b">>, <<Q, "field", Q>>,
      FieldObject(Quoted(<<"a">>)), FieldObject(<<"5">>),
      PairObject(Quoted(<<"a">>), Quoted(<<"b">>)) }

Leads ==
    { <<"<think>", "a">>, <<"<think>", "a", "</think>">>,
      <<"<THINK>", "a", "</think>", "\n">>, <<"a", " ">> }

ModelTexts ==
    {strip(s) : s \in Labels \cup Objects \cup Piped \cup PipedShapeless
                      \cup {l \o b : l \in Leads, b \in Tails}}

\* str(e).strip(), with "HTTP <status> - " in front when e carries a status.
ErrMsgs ==
    LET m == { <<"a">>, <<"a", "|", "b">>, <<"a", ".", "b">>,
               FieldObject(Quoted(<<"a">>)) }
    IN  m \cup {<<"HTTP", " ", "5", " ", "-", " ">> \o e : e \in {<<"a">>}}

\* The bracketed texts ask_openai_api returns in place of an exception.
ApiDiagnostics ==
    {<<"[", "weianzhuang", " ", "openai", " ", "bao", "]">>}
    \cup {<<"[", "API", " ", "qingqiushibai", ":", " ">> \o e \o <<"]">> :
            e \in ErrMsgs}

\* The bracketed text ask_ollama returns in place of an exception.
OllamaDiagnostics ==
    {<<"[", "Ollama", " ", "qingqiushibai", ":", " ">> \o e \o <<"]">> :
        e \in ErrMsgs}

ask_openai_api == ModelTexts \cup ApiDiagnostics

ask_ollama == ModelTexts \cup OllamaDiagnostics

\* What _call() can return, and the request it makes.
_call(p) == IF p = "openai_api" THEN ask_openai_api ELSE ask_ollama

Request(p, pr, sm) ==
    [prompt |-> pr, system |-> IF p = "openai_api" THEN sm ELSE "absent"]

\* _identify_domain_mock's table, and its default.
MockDomains ==
    { Pair(<<"jisuanjikexue">>, <<"Computer Science">>),
      Pair(<<"shengwuxinxixue">>, <<"Bioinformatics">>),
      Pair(<<"yixue">>, <<"Medicine">>),
      Pair(<<"shengmingkexue">>, <<"Life Science">>),
      Pair(<<"huaxue">>, <<"Chemistry">>),
      Pair(<<"wulixue">>, <<"Physics">>),
      Pair(<<"cailiaokexue">>, <<"Materials Science">>),
      Pair(<<"nongxue">>, <<"Agriculture">>),
      Pair(<<"jingjixue">>, <<"Economics">>),
      Pair(WEIFENLEI, UNCATEGORIZED) }

(***************************************************************************)
(* identify_domain                                                         *)
(***************************************************************************)

Providers == {"ollama", "openai_api", "mock"}

\* Lines 309-310: the first attempt is returned as it stands.
Usable(r) == r.kind = "pair" /\ r.cn \notin {<<>>, WEIFENLEI}

\* Lines 316-320: the last normalization, on raw2 or else raw.
FinalFallback(r1, r2) ==
    LET s == strip(IF r2 # <<>> THEN r2 ELSE r1)
        cn == _normalize_domain(s)
    IN  IF cn # <<>> /\ cn # WEIFENLEI /\ ~HasThink(cn)
        THEN Pair(cn, cn)
        ELSE Pair(WEIFENLEI, UNCATEGORIZED)

ClassifyInit ==
    /\ provider \in Providers
    /\ prompt = "prompt"
    /\ sys_msg = "DEFAULT_SYSTEM_PROMPT"
    /\ pc = "start"
    /\ raw = <<>>
    /\ raw2 = <<>>
    /\ result = None
    /\ sent = <<>>

ClassifyIdle ==
    /\ provider = "mock"
    /\ prompt = "prompt"
    /\ sys_msg = "DEFAULT_SYSTEM_PROMPT"
    /\ pc = "idle"
    /\ raw = <<>>
    /\ raw2 = <<>>
    /\ result = None
    /\ sent = <<>>

\* Lines 201-203
Mock ==
    /\ pc = "start"
    /\ provider = "mock"
    /\ \E r \in MockDomains : result' = r
    /\ pc' = "done"
    /\ UNCHANGED <<provider, prompt, sys_msg, raw, raw2, sent>>

\* Line 307: raw = _call()
Call1 ==
    /\ pc = "start"
    /\ provider # "mock"
    /\ \E r \in _call(provider) : raw' = r
    /\ sent' = Append(sent, Request(provider, prompt, sys_msg))
    /\ pc' = "parse1"
    /\ UNCHANGED <<provider, prompt, sys_msg, raw2, result>>

\* Lines 308-310: result = _parse(raw), returned when usable
Parse1 ==
    /\ pc = "parse1"
    /\ result' = _parse(raw)
    /\ pc' = IF result'.kind = "raise" THEN "raised"
             ELSE IF Usable(result') THEN "done"
             ELSE "retry"
    /\ UNCHANGED <<provider, prompt, sys_msg, raw, raw2, sent>>

\* Line 311: raw2 = _call()
Call2 ==
    /\ pc = "retry"
    /\ \E r \in _call(provider) : raw2' = r
    /\ sent' = Append(sent, Request(provider, prompt, sys_msg))
    /\ pc' = "parse2"
    /\ UNCHANGED <<provider, prompt, sys_msg, raw, result>>

\* Lines 312-320 without lines 312-314: the second response goes straight
\* to the last normalization.
Parse2Unparsed ==
    /\ pc = "parse2"
    /\ result' = FinalFallback(raw, raw2)
    /\ pc' = "done"
    /\ UNCHANGED <<provider, prompt, sys_msg, raw, raw2, sent>>

\* Lines 312-320: result = _parse(raw2), else the last normalization
Parse2 ==
    /\ pc = "parse2"
    /\ result' = OrElse(_parse(raw2), FinalFallback(raw, raw2))
    /\ pc' = IF result'.kind = "raise" THEN "raised" ELSE "done"
    /\ UNCHANGED <<provider, prompt, sys_msg, raw, raw2, sent>>

(***************************************************************************)
(* chunk_text (extractors.py).  Text is a sequence of characters here;     *)
(* start and end are Python's offsets, counted from 0.                     *)
(***************************************************************************)

\* Longest text, largest chunk_size and overlap, and most loop iterations.
MaxTextLen == 6
MaxChunk == 5
MaxOverlap == 4
MaxIters == 8

TextChars == {"a", " ", "\n"}

Texts == UNION {[1..n -> TextChars] : n \in 0..MaxTextLen}

\* s[a:b], with Python's reading of negative and oversized offsets
PySlice(s, a, b) ==
    LET lo == IF a < 0 THEN Max({a + Len(s), 0}) ELSE Min({a, Len(s)})
        hi == IF b < 0 THEN Max({b + Len(s), 0}) ELSE Min({b, Len(s)})
    IN  IF lo >= hi THEN <<>> ELSE SubSeq(s, lo + 1, hi)

\* s.rfind(sep): the offset of the last occurrence, -1 when there is none
rfind(s, sep) ==
    Max({i \in 0..(Len(s) - Len(sep)) :
            SubSeq(s, i + 1, i + Len(sep)) = sep} \cup {-1})

CHUNK_SEPS == << <<"\n", "\n">>, <<"\n">>, <<"cn_period">>, <<".">>,
                 <<" ">>, <<>> >>

\* Lines 92-96: the end of the window, moved back to the first separator of
\* the list that lies past the middle of the window.
RECURSIVE CutEnd(_, _, _, _, _)
CutEnd(segment, st, end, size, k) ==
    IF k > Len(CHUNK_SEPS) THEN end
    ELSE IF rfind(segment, CHUNK_SEPS[k]) > size \div 2
    THEN st + rfind(segment, CHUNK_SEPS[k]) + Len(CHUNK_SEPS[k])
    ELSE CutEnd(segment, st, end, size, k + 1)

\* chunks.append(chunk) when the stripped window is not empty; the window's
\* offsets are kept beside the chunk.
Appended(cs, st, end, chunk) ==
    IF chunk # <<>>
    THEN Append(cs, [from |-> st, to |-> end, chunk |-> chunk])
    ELSE cs

\* The window text[st:end] of lines 79, 86 and 97, kept whether or not its
\* chunk is empty.
Carved(ws, st, end) == Append(ws, [from |-> st, to |-> end])

\* Line 100
NextStart(end, ov, size) == end - Min({ov, size - 1})

ChunkInit ==
    /\ text \in Texts
    /\ chunk_size \in 0..MaxChunk
    /\ overlap \in 0..MaxOverlap
    /\ start = 0
    /\ chunks = <<>>
    /\ windows = <<>>
    /\ cpc = "entry"
    /\ iters = 0

ChunkIdle ==
    /\ text = <<>>
    /\ chunk_size = 0
    /\ overlap = 0
    /\ start = 0
    /\ chunks = <<>>
    /\ windows = <<>>
    /\ cpc = "idle"
    /\ iters = 0

\* Lines 75-82
ChunkEnter ==
    /\ cpc = "entry"
    /\ IF text = <<>> \/ chunk_size <= 0
       THEN /\ text' = text
            /\ chunks' = <<>>
            /\ windows' = <<>>
            /\ cpc' = "done"
       ELSE /\ text' = strip(text)
            /\ chunks' = IF Len(text') <= chunk_size
                         THEN Appended(<<>>, 0, Len(text'), text')
                         ELSE <<>>
            /\ windows' = IF Len(text') <= chunk_size
                          THEN Carved(<<>>, 0, Len(text'))
                          ELSE <<>>
            /\ cpc' = IF Len(text') <= chunk_size THEN "done" ELSE "loop"
    /\ UNCHANGED <<chunk_size, overlap, start, iters>>

\* Lines 83-100: one iteration of the while loop, or its exit.
ChunkStep ==
    /\ cpc = "loop"
    /\ iters < MaxIters
    /\ IF start >= Len(text)
       THEN /\ cpc' = "done"
            /\ UNCHANGED <<start, chunks, windows>>
       ELSE IF start + chunk_size >= Len(text)
       THEN /\ chunks' = Appended(chunks, start, Len(text),
                                  strip(PySlice(text, start, Len(text))))
            /\ windows' = Carved(windows, start, Len(text))
            /\ cpc' = "done"
            /\ UNCHANGED start
       ELSE LET end == CutEnd(PySlice(text, start, start + chunk_size),
                              start, start + chunk_size, chunk_size, 1)
            IN  /\ chunks' = Appended(chunks, start, end,
                                      strip(PySlice(text, start, end)))
                /\ windows' = Carved(windows, start, end)
                /\ start' = NextStart(end, overlap, chunk_size)
                /\ cpc' = "loop"
    /\ iters' = iters + 1
    /\ UNCHANGED <<text, chunk_size, overlap>>

(***************************************************************************)
(* Prompt assembly: lines 176-199 of identify_domain.  Only lengths of the *)
(* system prompt and of the prefix matter; the content is a sequence of    *)
(* characters.                                                             *)
(***************************************************************************)

\* len(prompt_prefix_tpl % ("", "")): the template without vocabulary and title
PROMPT_PREFIX_LEN == 138

\* Longest content, title plus vocabulary, system prompt; and how far the cap
\* may lie above the template's length.
MaxContentLen == 5
MaxTitleLen == 1
MaxSysLen == 1
MaxSlack == 5

ContentChars == {"a", " ", ","}

Contents == UNION {[1..n -> ContentChars] : n \in 0..MaxContentLen}

NO_CONTENT ==
    <<"N", "o", " ", "C", "o", "n", "t", "e", "n", "t", " ",
      "D", "e", "t", "e", "c", "t", "e", "d">>

CONTEXT_SEPS == <<"\n", "cn_period", ".", " ", "cn_comma", ",">>

\* Lines 149-153: cut after the first separator of the list whose last
\* occurrence lies past the middle of the budget.
RECURSIVE CutContext(_, _, _)
CutContext(truncated, max_chars, k) ==
    IF k > Len(CONTEXT_SEPS) THEN strip(truncated)
    ELSE IF rfind(truncated, <<CONTEXT_SEPS[k]>>) > max_chars \div 2
    THEN strip(PySlice(truncated, 0,
                       rfind(truncated, <<CONTEXT_SEPS[k]>>) + 1))
    ELSE CutContext(truncated, max_chars, k + 1)

_truncate_for_context(s, max_chars) ==
    IF s = <<>> \/ max_chars <= 0 THEN <<>>
    ELSE IF Len(strip(s)) <= max_chars THEN strip(s)
    ELSE CutContext(PySlice(strip(s), 0, max_chars), max_chars, 1)

PromptInit ==
    /\ cap \in (PROMPT_PREFIX_LEN - 1)..(PROMPT_PREFIX_LEN + MaxSlack)
    /\ sys_len \in 0..MaxSysLen
    /\ prefix_len \in PROMPT_PREFIX_LEN..(PROMPT_PREFIX_LEN + MaxTitleLen)
    /\ content \in Contents
    /\ ppc = "entry"

PromptIdle ==
    /\ cap = 0
    /\ sys_len = 0
    /\ prefix_len = 0
    /\ content = <<>>
    /\ ppc = "idle"

\* Lines 179 and 196-197: content_s, cut to what the cap leaves.
Assemble ==
    /\ ppc = "entry"
    /\ content' = _truncate_for_context(
                      strip(IF content # <<>> THEN content ELSE NO_CONTENT),
                      Max({0, cap - sys_len - prefix_len}))
    /\ ppc' = "done"
    /\ UNCHANGED <<cap, sys_len, prefix_len>>

(***************************************************************************)
(* The truncation rule at its three sites: _truncate and                   *)
(* merge_chunks_for_llm (extractors.py) and _truncate_for_context          *)
(* (llm_client.py), each applied to the same string and cap, and then to   *)
(* its own result.  The string is a sequence of characters.                *)
(***************************************************************************)

\* Longest string and largest cap.
MaxStrLen == 6
MaxCap == 5

StrChars == {"a", " ", ","}

Strs == UNION {[1..n -> StrChars] : n \in 0..MaxStrLen}

TRUNCATE_SEPS == <<"\n", "cn_period", ".", " ">>

\* extractors.py lines 182-186
RECURSIVE CutTruncate(_, _, _)
CutTruncate(t, max_chars, k) ==
    IF k > Len(TRUNCATE_SEPS) THEN strip(t)
    ELSE IF rfind(t, <<TRUNCATE_SEPS[k]>>) > max_chars \div 2
    THEN strip(PySlice(t, 0, rfind(t, <<TRUNCATE_SEPS[k]>>) + 1))
    ELSE CutTruncate(t, max_chars, k + 1)

\* _truncate without the strip() of line 185.
TruncateUnstripped(s, max_chars) ==
    IF s = <<>> \/ max_chars <= 0 THEN <<>>
    ELSE IF Len(strip(s)) <= max_chars THEN strip(s)
    ELSE LET t == PySlice(strip(s), 0, max_chars)
             I == {k \in 1..Len(TRUNCATE_SEPS) :
                      rfind(t, <<TRUNCATE_SEPS[k]>>) > max_chars \div 2}
         IN  IF I = {} THEN strip(t)
             ELSE PySlice(t, 0, rfind(t, <<TRUNCATE_SEPS[Min(I)]>>) + 1)

_truncate(s, max_chars) ==
    IF s = <<>> \/ max_chars <= 0 THEN <<>>
    ELSE IF Len(strip(s)) <= max_chars THEN strip(s)
    ELSE CutTruncate(PySlice(strip(s), 0, max_chars), max_chars, 1)

\* separator.join(chunks)
RECURSIVE Join(_, _)
Join(cs, separator) ==
    IF cs = <<>> THEN <<>>
    ELSE IF Len(cs) = 1 THEN cs[1]
    ELSE cs[1] \o separator \o Join(Tail(cs), separator)

\* extractors.py lines 119-125: the cut of merged[:max_chars]
RECURSIVE CutMerged(_, _, _)
CutMerged(truncated, max_chars, k) ==
    IF k > Len(TRUNCATE_SEPS) THEN strip(truncated)
    ELSE IF rfind(truncated, <<TRUNCATE_SEPS[k]>>) > max_chars \div 2
    THEN strip(PySlice(truncated, 0,
                       rfind(truncated, <<TRUNCATE_SEPS[k]>>) + 1))
    ELSE CutMerged(truncated, max_chars, k + 1)

merge_chunks_for_llm(cs, max_chars) ==
    IF cs = <<>> THEN <<>>
    ELSE IF Len(Join(cs, <<"\n", "\n">>)) <= max_chars
    THEN Join(cs, <<"\n", "\n">>)
    ELSE CutMerged(PySlice(Join(cs, <<"\n", "\n">>), 0, max_chars),
                   max_chars, 1)

\* The three sites on one string and cap.
Sites(s, c, m, max_chars) ==
    [truncate |-> _truncate(s, max_chars),
     context |-> _truncate_for_context(c, max_chars),
     merged |-> merge_chunks_for_llm(<<m>>, max_chars)]

NoSites == [truncate |-> <<>>, context |-> <<>>, merged |-> <<>>]

TruncInit ==
    /\ ts \in Strs
    /\ tn \in 0..MaxCap
    /\ once = NoSites
    /\ twice = NoSites
    /\ tpc = "entry"

TruncIdle ==
    /\ ts = <<>>
    /\ tn = 0
    /\ once = NoSites
    /\ twice = NoSites
    /\ tpc = "idle"

\* Each site applied to ts.
TruncOnce ==
    /\ tpc = "entry"
    /\ once' = Sites(ts, ts, ts, tn)
    /\ tpc' = "once"
    /\ UNCHANGED <<ts, tn, twice>>

\* Each site applied to what it returned.
TruncTwice ==
    /\ tpc = "once"
    /\ twice' = Sites(once.truncate, once.context, once.merged, tn)
    /\ tpc' = "twice"
    /\ UNCHANGED <<ts, tn, once>>

(***************************************************************************)
(* storage.py: ensure_db and upsert_domain on one database file.  The      *)
(* table is the set of its rows; updated_at, which only records the time   *)
(* of the write, is left out.                                              *)
(***************************************************************************)

\* Most upsert_domain calls in a run.
MaxUpserts == 4

\* file_path arguments: two spellings of one file, and another file.
FilePaths == {"a.pdf", "./a.pdf", "b.pdf"}

\* str(Path(file_path).resolve())
Resolve(p) == IF p = "b.pdf" THEN "/cwd/b.pdf" ELSE "/cwd/a.pdf"

\* Path(file_path).name
Name(p) == IF p = "b.pdf" THEN "b.pdf" ELSE "a.pdf"

DomainsCn == {"x", "y"}
DomainsEn == {"X", "Y"}

NoTable == [created |-> FALSE, rows |-> {}]
NoCall == [file_path |-> "", domain_cn |-> "", domain_en |-> ""]

\* Whether a row of the given resolved path exists: the UNIQUE constraint on
\* file_path of line 24.
Conflict(rows, key) == \E r \in rows : r.file_path = key

\* ON CONFLICT(file_path) DO UPDATE SET ... (lines 59-63)
DoUpdate(rows, key, name, cn, en) ==
    {IF r.file_path = key
     THEN [r EXCEPT !.file_name = name, !.domain_cn = cn, !.domain_en = en]
     ELSE r : r \in rows}

\* INSERT INTO literature_domains ... VALUES (?, ?, ?, ?) (lines 57-58)
Insert(rows, id, key, name, cn, en) ==
    rows \cup {[id |-> id, file_path |-> key, file_name |-> name,
                domain_cn |-> cn, domain_en |-> en]}

\* The statement without its ON CONFLICT clause: the UNIQUE constraint
\* rejects a second row of the path and the stored row stays as it was.
InsertOnly(rows, id, p, cn, en) ==
    IF Conflict(rows, Resolve(p)) THEN rows
    ELSE Insert(rows, id, Resolve(p), Name(p), cn, en)

\* The statement of lines 55-65.
Upserted(rows, id, p, cn, en) ==
    IF Conflict(rows, Resolve(p))
    THEN DoUpdate(rows, Resolve(p), Name(p), cn, en)
    ELSE Insert(rows, id, Resolve(p), Name(p), cn, en)

StoreInit ==
    /\ conn = FALSE
    /\ table = NoTable
    /\ next_id = 1
    /\ call = NoCall
    /\ ncalls = 0

StoreIdle ==
    /\ conn = FALSE
    /\ table = NoTable
    /\ next_id = 0
    /\ call = NoCall
    /\ ncalls = 0

\* ensure_db: connect, and create the table when it is not there.
EnsureDb ==
    /\ next_id > 0
    /\ conn = FALSE
    /\ conn' = TRUE
    /\ table' = [table EXCEPT !.created = TRUE]
    /\ UNCHANGED <<next_id, call, ncalls>>

\* conn.close() by the caller (main.py); the file keeps the table.
CloseDb ==
    /\ conn = TRUE
    /\ conn' = FALSE
    /\ UNCHANGED <<table, next_id, call, ncalls>>

\* upsert_domain(conn, file_path, domain_cn, domain_en)
Upsert ==
    /\ conn = TRUE
    /\ table.created
    /\ ncalls < MaxUpserts
    /\ \E p \in FilePaths, cn \in DomainsCn, en \in DomainsEn :
           /\ table' = [table EXCEPT
                            !.rows = Upserted(table.rows, next_id, p, cn, en)]
           /\ next_id' = IF Conflict(table.rows, Resolve(p))
                         THEN next_id ELSE next_id + 1
           /\ call' = [file_path |-> p, domain_cn |-> cn, domain_en |-> en]
    /\ ncalls' = ncalls + 1
    /\ UNCHANGED conn

Init ==
    ClassifyInit /\ ChunkIdle /\ PromptIdle /\ TruncIdle /\ StoreIdle

Next ==
    \/ Mock /\ UNCHANGED <<chunkVars, promptVars, truncVars, storeVars>>
    \/ Call1 /\ UNCHANGED <<chunkVars, promptVars, truncVars, storeVars>>
    \/ Parse1 /\ UNCHANGED <<chunkVars, promptVars, truncVars, storeVars>>
    \/ Call2 /\ UNCHANGED <<chunkVars, promptVars, truncVars, storeVars>>
    \/ Parse2 /\ UNCHANGED <<chunkVars, promptVars, truncVars, storeVars>>

Spec == Init /\ [][Next]_vars

ChunkNext ==
    \/ ChunkEnter /\ UNCHANGED <<classifyVars, promptVars, truncVars, storeVars>>
    \/ ChunkStep /\ UNCHANGED <<classifyVars, promptVars, truncVars, storeVars>>

InitChunk ==
    ClassifyIdle /\ ChunkInit /\ PromptIdle /\ TruncIdle /\ StoreIdle

SpecChunk == InitChunk /\ [][ChunkNext]_vars

PromptNext ==
    Assemble
    /\ UNCHANGED <<classifyVars, chunkVars, truncVars, storeVars>>

InitPrompt ==
    ClassifyIdle /\ ChunkIdle /\ PromptInit /\ TruncIdle /\ StoreIdle

SpecPrompt == InitPrompt /\ [][PromptNext]_vars

TruncNext ==
    \/ TruncOnce /\ UNCHANGED <<classifyVars, chunkVars, promptVars, storeVars>>
    \/ TruncTwice /\ UNCHANGED <<classifyVars, chunkVars, promptVars, storeVars>>

InitTrunc ==
    ClassifyIdle /\ ChunkIdle /\ PromptIdle /\ TruncInit /\ StoreIdle

SpecTrunc == InitTrunc /\ [][TruncNext]_vars

StoreNext ==
    \/ EnsureDb
       /\ UNCHANGED <<classifyVars, chunkVars, promptVars, truncVars>>
    \/ CloseDb
       /\ UNCHANGED <<classifyVars, chunkVars, promptVars, truncVars>>
    \/ Upsert
       /\ UNCHANGED <<classifyVars, chunkVars, promptVars, truncVars>>

InitStore ==
    ClassifyIdle /\ ChunkIdle /\ PromptIdle /\ TruncIdle /\ StoreInit

SpecStore == InitStore /\ [][StoreNext]_vars

(***************************************************************************)
(* Properties of identify_domain                                           *)
(***************************************************************************)

\* identify_domain has returned or raised on a model-backed provider.
Finished == provider # "mock" /\ pc \in {"done", "raised"}

Returned == provider # "mock" /\ pc = "done"

SENTINEL == Pair(WEIFENLEI, UNCATEGORIZED)

\* C1: a non-mock call makes exactly one gateway call when the first response
\* parses to a label other than "" and the Uncategorized sentinel, exactly
\* two otherwise, never a third, and the second request equals the first.
C1_CallProtocol ==
    Finished =>
        /\ Len(sent) = IF Usable(_parse(raw)) THEN 1 ELSE 2
        /\ \A i \in 1..Len(sent) : sent[i] = sent[1]

\* C2: no exception leaves identify_domain, whatever the gateway returns:
\* every call ends in a returned pair.
C2_NoException == pc # "raised"

JSON_PUNCTUATION == {"{", "}", "[", "]", Q, ":"}

\* C3: a returned domain_cn is the Uncategorized sentinel, or is non-empty, at
\* most 50 characters long, and free of reasoning markers and of JSON
\* punctuation, on every return path.
C3_LabelInvariant ==
    Returned =>
        \/ result.cn = WEIFENLEI
        \/ /\ result.cn # <<>>
           /\ len(result.cn) <= 50
           /\ \A i \in 1..Len(result.cn) :
                  result.cn[i] \notin {THINK_OPEN, THINK_CLOSE}
                                      \cup JSON_PUNCTUATION

\* C4: every iteration of chunk_text's loop leaves start strictly greater
\* than it found it, so the loop ends for every chunk_size > 0 and overlap >= 0.
C4_ForwardProgress ==
    [][(cpc = "loop" /\ cpc' = "loop") => start' > start]_vars

\* C5: the assembled prompt keeps len(system prompt) + len(prefix) +
\* len(truncated content) within max_prompt_chars, for any max_prompt_chars.
C5_PromptWithinCap ==
    ppc = "done" => sys_len + prefix_len + Len(content) <= cap

\* A response that opens with the reasoning marker and never closes it, or
\* closes it before a tail that is empty or holds no "field" key.
ReasoningOnly(r) ==
    /\ r # <<>>
    /\ Head(r) \in {THINK_OPEN, "<THINK>"}
    /\ \/ ~Contains(r, THINK_CLOSE)
       \/ LET tail == strip(AfterFirst(r, THINK_CLOSE))
          IN  \A i \in 1..Len(tail) : ~KeyAt(tail, i, "field")

\* A label of plain words, within the length limit.
PlainLabel(l) ==
    /\ l # <<>>
    /\ len(l) <= 50
    /\ \A i \in 1..Len(l) : l[i] \in {"a", "b", "w25"}

C7_SentinelPair ==
    Returned => (result.cn = WEIFENLEI => result.en = UNCATEGORIZED)

\* C8: a reasoning-only response is a parse failure of its attempt: _parse
\* yields no result, so nothing of the reasoning block becomes the label, and
\* as the first response it leads to the second gateway call.
C8_ReasoningOnlyFails ==
    /\ (pc = "retry" /\ ReasoningOnly(raw)) => result = None
    /\ (Finished /\ ReasoningOnly(raw)) => Len(sent) = 2
    /\ (pc # "start" /\ ReasoningOnly(raw2)) => _parse(raw2) = None

C8_Witness ==
    /\ pc = "retry"
    /\ raw = <<THINK_OPEN, "a", THINK_CLOSE, "a", "|", "b">>
    /\ result = None

GatewayDiagnostics == ApiDiagnostics \cup OllamaDiagnostics

\* C9: a gateway diagnostic as first response always leads to the second
\* gateway call, and nothing of a diagnostic is returned as a label: with
\* no model text in either response the result is the sentinel pair.
C9_DiagnosticUnparsable ==
    (Finished /\ raw \in GatewayDiagnostics) =>
        /\ Len(sent) = 2
        /\ raw2 \in GatewayDiagnostics \cup {<<>>} => result = SENTINEL

\* A {"field": "L"} response whose label is longer than 50 characters or
\* embeds a reasoning marker.
RejectedLabel(r) ==
    \E l \in Labels :
        /\ r = FieldObject(Quoted(l))
        /\ len(l) > 50 \/ HasThink(l)

\* C10: a label that breaks the length or content rule is forced to
\* Uncategorized by every parser strategy: no attempt yields another label
\* for it, shortened or whole.
C10_RejectedForced ==
    /\ (Finished /\ RejectedLabel(raw)) => Len(sent) = 2
    /\ (Returned /\ RejectedLabel(raw2)) => result.cn = WEIFENLEI

(***************************************************************************)
(* Properties of the truncation rule                                       *)
(***************************************************************************)

\* C11: truncating a truncated string again with the same cap changes
\* nothing, for _truncate and for _truncate_for_context, and a truncated
\* string is never longer than the cap.
C11_TruncationIdempotent ==
    /\ tpc \in {"once", "twice"} =>
           Len(once.truncate) <= tn /\ Len(once.context) <= tn
    /\ tpc = "twice" =>
           twice.truncate = once.truncate /\ twice.context = once.context

C11_Witness ==
    /\ tpc = "twice"
    /\ ts = <<"a", "a", "a", " ", "a">>
    /\ tn = 4
    /\ once.truncate = <<"a", "a", "a">>
    /\ twice.truncate = <<"a", "a", "a">>

(***************************************************************************)
(* Properties of chunk_text                                                *)
(***************************************************************************)

\* A chunk is the trimmed, non-empty text of a window of the trimmed text,
\* no longer than chunk_size.
WellFormedChunk(c) ==
    /\ 0 <= c.from /\ c.from < c.to /\ c.to <= Len(text)
    /\ c.chunk = strip(SubSeq(text, c.from + 1, c.to))
    /\ c.chunk # <<>>
    /\ Len(c.chunk) <= chunk_size

\* C12: chunk_text emits its chunks in source order, each the trimmed
\* non-empty text of a window of at most chunk_size characters; each window
\* starts at or before the end of the one before, overlapping it by at most
\* overlap characters, and the windows of a finished run cover every
\* character of the trimmed text.
C12_ChunksCoverInOrder ==
    /\ \A i \in 1..Len(chunks) : WellFormedChunk(chunks[i])
    /\ \A i \in 1..(Len(chunks) - 1) : chunks[i].from < chunks[i + 1].from
    /\ \A i \in 1..(Len(windows) - 1) :
           /\ windows[i + 1].from <= windows[i].to
           /\ windows[i].to - windows[i + 1].from <= overlap
    /\ (cpc = "done" /\ chunk_size > 0) =>
           \A k \in 1..Len(text) :
               \E i \in 1..Len(windows) :
                   windows[i].from < k /\ k <= windows[i].to

(***************************************************************************)
(* Properties of the storage                                               *)
(***************************************************************************)

\* The rows of a table stored under a resolved path.
RowsOf(t, key) == {r \in t.rows : r.file_path = key}

\* C13: the table never holds two rows of one resolved file_path, the row
\* of the latest upsert's path carries that upsert's domain_cn and
\* domain_en, and an upsert leaves the rows of every other path as they were.
C13_LastWriterWins ==
    /\ [](\A r1, r2 \in table.rows : r1.file_path = r2.file_path => r1 = r2)
    /\ [](ncalls > 0 =>
            \E r \in RowsOf(table, Resolve(call.file_path)) :
                r.domain_cn = call.domain_cn /\ r.domain_en = call.domain_en)
    /\ [][ncalls' # ncalls =>
            \A key \in {Resolve(p) : p \in FilePaths} :
                key # Resolve(call'.file_path) =>
                    RowsOf(table', key) = RowsOf(table, key)]_vars

C13_Witness ==
    /\ ncalls = 3
    /\ call = [file_path |-> "./a.pdf", domain_cn |-> "y", domain_en |-> "Y"]
    /\ table.rows =
           {[id |-> 1, file_path |-> "/cwd/a.pdf", file_name |-> "a.pdf",
             domain_cn |-> "y", domain_en |-> "Y"],
            [id |-> 2, file_path |-> "/cwd/b.pdf", file_name |-> "b.pdf",
             domain_cn |-> "x", domain_en |-> "X"]}

(***************************************************************************)
(* Properties of the parse attempts                                        *)
(***************************************************************************)

\* The first attempt has been parsed and the second not yet requested.
FirstParsed == pc \in {"retry", "done", "raised"} /\ Len(sent) = 1

\* C14: the strategies run in order and stop at the first success; an
\* object that is not of an expected shape, unparsable or without the keys,
\* falls through to the next strategy, so that the cn|en text beside it
\* is what the attempt yields.
C14_FallThrough ==
    \A o \in Shapeless :
        (FirstParsed /\ raw = <<"a", "|", "b", " ">> \o o) =>
            result = Pair(<<"a">>, <<"b", " ">> \o o)

\* C15: when the second attempt fails too, its parse yielding nothing or
\* only the Uncategorized sentinel, identify_domain returns the last
\* normalization of the second response, or of the first when the second is
\* empty, and the sentinel pair only when that normalization is not usable.
C15_LastNormalization ==
    (Returned /\ Len(sent) = 2 /\ ~Usable(_parse(raw2))) =>
        result = FinalFallback(raw, raw2)

\* C16: on every string and cap the three sites of the truncation rule,
\* _truncate, merge_chunks_for_llm on the single chunk, and
\* _truncate_for_context, return the same result.
C16_SitesAgree ==
    tpc \in {"once", "twice"} =>
        once.truncate = once.merged /\ once.truncate = once.context

====
